---- MODULE Spec2Model ----
(***************************************************************************)
(* PoetryService (interpreter/locators/services/poetryService.ts) and      *)
(* PoetryActivationCommandProvider (common/terminal/                       *)
(* environmentActivationProviders/poetryActivationProvider.ts).            *)
(*                                                                         *)
(* Every call of a public method is a record of `calls`; it advances one   *)
(* step at each `await`, where the collaborator's answer (file system,     *)
(* process service, interpreter helper, interpreter service) is chosen     *)
(* nondeterministically, promise rejections included.  Strings are         *)
(* sequences of one-character strings; "bin", "python" and "poetry.lock"   *)
(* are kept as single tokens.  Paths follow the POSIX flavour of `path`.   *)
(* An optional value is a sequence of length 0 (undefined) or 1.           *)
(***************************************************************************)
EXTENDS Naturals, Sequences, FiniteSets

VARIABLES calls, hasInterpreters

vars == <<calls, hasInterpreters>>

\* Bound of the model: the longest output the tool prints.
MaxLen == 2

\* Two calls in flight are what an interleaving needs.
Calls == {1, 2}

None == <<>>
Some(x) == <<x>>
IsSome(o) == Len(o) > 0
Get(o) == o[1]

----------------------------------------------------------------------------
\* String and path helpers, as the JavaScript runtime computes them.

IsSpace(ch) == ch \in {" ", "\n"}

RECURSIVE TrimStart(_)
TrimStart(s) ==
  IF s # <<>> /\ IsSpace(Head(s)) THEN TrimStart(Tail(s)) ELSE s

RECURSIVE TrimEnd(_)
TrimEnd(s) ==
  IF s # <<>> /\ IsSpace(s[Len(s)]) THEN TrimEnd(SubSeq(s, 1, Len(s) - 1)) ELSE s

\* String.prototype.trim
Trim(s) == TrimEnd(TrimStart(s))

\* path.normalize on paths without "." and ".." segments: runs of
\* separators collapse to one.
RECURSIVE Normalize(_)
Normalize(s) ==
  IF Len(s) < 2 THEN s
  ELSE IF s[1] = "/" /\ s[2] = "/" THEN Normalize(Tail(s))
  ELSE <<s[1]>> \o Normalize(Tail(s))

\* path.join of two segments: empty segments are dropped, the rest joined
\* with the separator and normalised.
pathJoin2(a, b) ==
  Normalize(IF a = <<>> THEN b ELSE IF b = <<>> THEN a ELSE a \o <<"/">> \o b)

RECURSIVE StripTrailingSep(_)
StripTrailingSep(s) ==
  IF s # <<>> /\ s[Len(s)] = "/" THEN StripTrailingSep(SubSeq(s, 1, Len(s) - 1)) ELSE s

RECURSIVE LastSegment(_)
LastSegment(s) ==
  IF s = <<>> \/ s[Len(s)] = "/" THEN <<>>
  ELSE LastSegment(SubSeq(s, 1, Len(s) - 1)) \o <<s[Len(s)]>>

\* path.basename
basename(p) == LastSegment(StripTrailingSep(p))

\* String.prototype.indexOf(needle) !== -1
Contains(hay, needle) ==
  \E i \in 1..(Len(hay) + 1) :
    /\ i + Len(needle) - 1 <= Len(hay)
    /\ SubSeq(hay, i, i + Len(needle) - 1) = needle

\* Uri.parse(uri).fsPath for a file: URI
UriFsPath(uri) == Tail(uri)

\* Uri of a folder
FileUri(p) == <<"file://">> \o p


----------------------------------------------------------------------------
\* Inputs and collaborator answers.

StdoutChars == {"\n", "/", "v"}

\* Every string of at most n characters the tool may print.
Strings(n) == UNION {[1..k -> StdoutChars] : k \in 0..n}

\* ExecutionResult.stderr is optional.
Stderrs == {None, Some(<<>>), Some(<<"\n">>), Some(<<"e">>)}

\* What `await processService.exec(...)` may settle to: a rejection, a
\* falsy result, or an ExecutionResult.
ExecAnswers(Outs) ==
  {[tag |-> t, stdout |-> <<>>, stderr |-> None] : t \in {"reject", "none"}}
  \cup {[tag |-> "result", stdout |-> o, stderr |-> e] : o \in Outs, e \in Stderrs}

\* What a promise of a boolean may settle to.
BoolAnswers == {"true", "false", "reject"}

WsPath == <<"/", "w">>
RootPath == <<"/", "r">>

Resources == {None, Some(<<"/", "w", "/", "a">>)}
WsFolders == {None, Some([uri |-> FileUri(WsPath)])}
RootPaths == {None, Some(RootPath)}

Dirs == {<<"/", "p">>, <<"/", "p", "/">>, <<"/", "w", "/", "q">>, <<"/">>}

PythonPaths ==
  { <<"/", "v", "/", "p", "-", "1", "/", "bin", "/", "python">>,
    <<"/", "p", "/", "bin", "/", "python">>,
    <<"/", "v", "/", "q", "-", "1", "/", "bin", "/", "python">>,
    <<"p", "-", "1">>,
    <<"/", "-", "x">> }

InterpreterTypes == {"Unknown", "Pipenv", "Poetry"}

\* Answers of IInterpreterHelper.getInterpreterInformation: a rejection,
\* undefined, or details (which may carry a path and a type of their own).
InfoAnswers ==
  {[tag |-> "reject", details |-> None], [tag |-> "resolve", details |-> None]}
  \cup {[tag |-> "resolve",
         details |-> Some([version |-> "3.7", path |-> <<"o">>, type |-> t,
                           poetryWorkspaceFolder |-> None])] :
        t \in {"Unknown", "Poetry"}}

\* Answers of IInterpreterService.getActiveInterpreter / getInterpreterDetails.
InterpreterAnswers ==
  {[tag |-> "reject", interpreter |-> None], [tag |-> "resolve", interpreter |-> None]}
  \cup {[tag |-> "resolve", interpreter |-> Some([type |-> t])] : t \in InterpreterTypes}

\* configService.getSettings().poetryPath
PoetryPaths == {<<"poetry">>, <<"/", "o", " ", "p", "/", "poetry">>}

ShellTypes == {"bash", "fish", "powershell", "other"}

\* JavaScript truthiness of an optional string.
Truthy(o) == IsSome(o) /\ Get(o) # <<>>

----------------------------------------------------------------------------
\* The code's pure steps.

\* Variant: the fallback to the workspace root is lost.
getPoetryWorkingDirectoryNoFallback(wsFolder, rootPath) ==
  IF IsSome(wsFolder) THEN Some(UriFsPath(Get(wsFolder).uri)) ELSE None

\* getPoetryWorkingDirectory, given workspace.getWorkspaceFolder's answer
\* and workspace.rootPath.
getPoetryWorkingDirectory(wsFolder, rootPath) ==
  IF IsSome(wsFolder) THEN Some(UriFsPath(Get(wsFolder).uri)) ELSE rootPath

\* Variant: the path separator is left out of the prefix searched for.
hasEnvPrefixNoSep(dir, pythonPath) ==
  Contains(pythonPath, basename(dir) \o <<"-">>)

\* isRelatedPoetryEnvironment's test on the names alone.
hasEnvPrefix(dir, pythonPath) ==
  Contains(pythonPath, <<"/">> \o basename(dir) \o <<"-">>)

\* Variant: the pending promise is tested instead of its value.
checkIfPoetryLockFileExistsNoAwait(ans) == TRUE

\* checkIfPoetryLockFileExists on fs.fileExists' answer.
checkIfPoetryLockFileExists(ans) == ans = "true"

\* Variant: the trimmed output is returned as it is, as the path of the
\* interpreter.
invokePoetryTryNoJoin(result) ==
  IF result.tag # "result" THEN [threw |-> FALSE, value |-> None]
  ELSE
    LET stdout == IF result.stdout # <<>> THEN Trim(result.stdout) ELSE <<>>
        stderr == IF Truthy(result.stderr) THEN Trim(Get(result.stderr)) ELSE <<>>
    IN IF Len(stderr) > 0 /\ Len(stdout) = 0
       THEN [threw |-> TRUE, value |-> None]
       ELSE [threw |-> FALSE, value |-> Some(stdout)]

\* invokePoetry's try block once exec has answered with a value.
invokePoetryTry(result) ==
  IF result.tag # "result" THEN [threw |-> FALSE, value |-> None]
  ELSE
    LET stdout == IF result.stdout # <<>> THEN Trim(result.stdout) ELSE <<>>
        stderr == IF Truthy(result.stderr) THEN Trim(Get(result.stderr)) ELSE <<>>
    IN IF Len(stderr) > 0 /\ Len(stdout) = 0
       THEN [threw |-> TRUE, value |-> None]
       ELSE [threw |-> FALSE,
             value |-> Some(pathJoin2(pathJoin2(Trim(result.stdout), <<"bin">>),
                                      <<"python">>))]

\* Variant: the catch block only logs.
invokePoetryCatchSilent == [errorsLogged |-> 1, shown |-> 0, rethrow |-> FALSE]

\* Variant: the catch block throws the error again once it has shown it.
invokePoetryCatchRethrow == [errorsLogged |-> 1, shown |-> 1, rethrow |-> TRUE]

\* invokePoetry's catch block: what it logs and shows, and whether the
\* error leaves invokePoetry.
invokePoetryCatch == [errorsLogged |-> 1, shown |-> 1, rethrow |-> FALSE]

\* getInterpreterPathFromPoetry's catch block.
getInterpreterPathCatch(ignoreErrors) ==
  [traced |-> 1, shown |-> IF ignoreErrors THEN 0 ELSE 1]

\* Variant: the details are spread last and win over the detected values.
makeInterpreterDetailsLast(details, interpreterPath, poetryCwd) ==
  [details EXCEPT !.poetryWorkspaceFolder =
     IF IsSome(@) THEN @ ELSE Some(poetryCwd)]

\* The record getInterpreterFromPoetry builds.
makeInterpreter(details, interpreterPath, poetryCwd) ==
  [details EXCEPT !.path = interpreterPath, !.type = "Poetry",
                  !.poetryWorkspaceFolder = Some(poetryCwd)]

\* common/string fileToCommandArgument, kept uninterpreted.
fileToCommandArgument(execName) == <<[fn |-> "fileToCommandArgument", arg |-> execName]>>

\* getActivationCommands after the active interpreter is known.
getActivationCommandsResult(interpreter, execName) ==
  IF ~IsSome(interpreter) \/ Get(interpreter).type # "Poetry" THEN None
  ELSE Some(<<fileToCommandArgument(execName) \o <<" ", "shell">>>>)

\* Variant: the interpreter's type is not looked at.
getActivationCommandsForInterpreterResultAnyType(interpreter, execName) ==
  IF ~IsSome(interpreter) THEN None
  ELSE Some(<<fileToCommandArgument(execName) \o <<" ", "shell">>>>)

\* getActivationCommandsForInterpreter after the details are known.
getActivationCommandsForInterpreterResult(interpreter, execName) ==
  IF ~IsSome(interpreter) \/ Get(interpreter).type # "Poetry" THEN None
  ELSE Some(<<fileToCommandArgument(execName) \o <<" ", "shell">>>>)


----------------------------------------------------------------------------
\* One call of a public method: its arguments, its position, what its
\* collaborators answered, and what it did and returned.

Idle ==
  [kind |-> "none", pc |-> "idle",
   resource |-> None, wsFolder |-> None, rootPath |-> None,
   dir |-> <<>>, pythonPathArg |-> <<>>, shell |-> "none",
   cwd |-> None, ignoreErrors |-> FALSE,
   lockPath |-> None, lock |-> "none", create |-> "none", exec |-> None,
   pythonPath |-> None, file |-> "none", info |-> None,
   interp |-> None, execName |-> None,
   pathOutcome |-> "pending", pathRet |-> None,
   outcome |-> "pending", list |-> <<>>, related |-> FALSE, commands |-> None,
   invokes |-> 0, creates |-> 0, execs |-> 0, fileChecks |-> 0,
   shown |-> 0, errorsLogged |-> 0, pathsLogged |-> 0, traced |-> 0]

Init ==
  /\ calls = [c \in Calls |-> Idle]
  /\ hasInterpreters = FALSE

Resolved(r) == [r EXCEPT !.pc = "done", !.outcome = "resolved"]
Rejected(r) == [r EXCEPT !.pc = "done", !.outcome = "rejected"]

\* getInterpreterPathFromPoetry is entered: fs.fileExists(<cwd>/poetry.lock)
\* is awaited.
EnterPath(r, cwd, ignoreErrors) ==
  [r EXCEPT !.cwd = Some(cwd), !.ignoreErrors = ignoreErrors,
            !.lockPath = Some(pathJoin2(cwd, <<"poetry.lock">>)),
            !.pc = "checkLock"]

\* getInterpreterPathFromPoetry has settled: its caller goes on.
\* isRelatedPoetryEnvironment returns !!envName; getInterpreterFromPoetry
\* returns on a falsy path or awaits the interpreter information, and
\* getInterpretersImplementation turns undefined and rejections into [].
PathSettled(r, outcome, value) ==
  LET r1 == [r EXCEPT !.pathOutcome = outcome, !.pathRet = value] IN
  IF r.kind = "isRelated"
  THEN IF outcome = "rejected" THEN Rejected(r1)
       ELSE Resolved([r1 EXCEPT !.related = Truthy(value)])
  ELSE IF outcome = "rejected" \/ ~Truthy(value) THEN Resolved([r1 EXCEPT !.list = <<>>])
       ELSE [r1 EXCEPT !.pc = "getInfo"]

\* getInterpreterPathFromPoetry's catch block has run.
PathCaught(r) ==
  LET h == getInterpreterPathCatch(r.ignoreErrors) IN
  PathSettled([r EXCEPT !.traced = @ + h.traced, !.shown = @ + h.shown],
              "returned", None)

\* invokePoetry has returned `value`: the rest of the try block of
\* getInterpreterPathFromPoetry.
InvokeReturned(r, value) ==
  LET r1 == [r EXCEPT !.pythonPath = value] IN
  IF Truthy(value)
  THEN [r1 EXCEPT !.pc = "fileExists", !.fileChecks = @ + 1]
  ELSE PathSettled(r1, "returned", None)

\* An error was thrown inside invokePoetry's try block.
InvokeThrew(r) ==
  LET h == invokePoetryCatch
      r1 == [r EXCEPT !.errorsLogged = @ + h.errorsLogged, !.shown = @ + h.shown]
  IN IF h.rethrow THEN PathCaught(r1) ELSE InvokeReturned(r1, None)

\* Variant: the answer of an earlier lookup of the same directory is used
\* again.
LockPassedCached(c, r) ==
  IF \E d \in Calls \ {c} : calls[d].pathOutcome = "returned" /\ calls[d].cwd = r.cwd
  THEN LET d == CHOOSE e \in Calls \ {c} :
                  calls[e].pathOutcome = "returned" /\ calls[e].cwd = r.cwd
       IN PathSettled(r, "returned", calls[d].pathRet)
  ELSE [r EXCEPT !.pc = "create", !.invokes = @ + 1, !.creates = @ + 1]

\* The lock file exists: the try block is entered and invokePoetry awaits
\* processServiceFactory.create.
LockPassed(c, r) ==
  [r EXCEPT !.pc = "create", !.invokes = @ + 1, !.creates = @ + 1]

Set(c, r) == calls' = [calls EXCEPT ![c] = r]

----------------------------------------------------------------------------
\* Actions.

\* getInterpretersImplementation(resource) up to its first await.
getInterpretersImplementation(c) ==
  /\ calls[c].pc = "idle"
  /\ \E resource \in Resources, ws \in WsFolders, root \in RootPaths :
       LET wsFolder == IF IsSome(resource) THEN ws ELSE None
           poetryCwd == getPoetryWorkingDirectory(wsFolder, root)
           r == [calls[c] EXCEPT !.kind = "getInterpreters", !.resource = resource,
                                 !.wsFolder = wsFolder, !.rootPath = root]
       IN IF ~Truthy(poetryCwd)
          THEN Set(c, Resolved([r EXCEPT !.list = <<>>]))
          ELSE Set(c, EnterPath(r, Get(poetryCwd), FALSE))
  /\ UNCHANGED hasInterpreters

\* isRelatedPoetryEnvironment(dir, pythonPath) up to its first await.
isRelatedPoetryEnvironment(c) ==
  /\ calls[c].pc = "idle"
  /\ \E dir \in Dirs, pythonPath \in PythonPaths :
       LET r == [calls[c] EXCEPT !.kind = "isRelated", !.dir = dir,
                                 !.pythonPathArg = pythonPath]
       IN IF ~hasEnvPrefix(dir, pythonPath)
          THEN Set(c, Resolved([r EXCEPT !.related = FALSE]))
          ELSE Set(c, EnterPath(r, dir, TRUE))
  /\ UNCHANGED hasInterpreters

\* fs.fileExists(<cwd>/poetry.lock) settles.
LockChecked(c) ==
  /\ calls[c].pc = "checkLock"
  /\ \E ans \in BoolAnswers :
       LET r == [calls[c] EXCEPT !.lock = ans] IN
       IF ans = "reject" THEN Set(c, PathSettled(r, "rejected", None))
       ELSE IF ~checkIfPoetryLockFileExists(ans) THEN Set(c, PathSettled(r, "returned", None))
       ELSE Set(c, LockPassed(c, r))
  /\ UNCHANGED hasInterpreters

\* processServiceFactory.create settles; on success exec is started.
ProcessServiceCreated(c) ==
  /\ calls[c].pc = "create"
  /\ \E ans \in {"ok", "reject"} :
       LET r == [calls[c] EXCEPT !.create = ans] IN
       IF ans = "reject" THEN Set(c, InvokeThrew(r))
       ELSE Set(c, [r EXCEPT !.pc = "exec", !.execs = @ + 1,
                             !.execName = Some(<<"poetry">>)])
  /\ UNCHANGED hasInterpreters

\* processService.exec(poetry, ['env', 'info', '-p'], {cwd}) settles.
ExecSettled(c, Outs) ==
  /\ calls[c].pc = "exec"
  /\ \E ans \in ExecAnswers(Outs) :
       LET r == [calls[c] EXCEPT !.exec = Some(ans)]
           result == ans
           t == invokePoetryTry(result)
       IN IF result.tag = "reject" \/ t.threw THEN Set(c, InvokeThrew(r))
          ELSE IF IsSome(t.value)
               THEN Set(c, InvokeReturned([r EXCEPT !.pathsLogged = @ + 1], t.value))
               ELSE Set(c, InvokeReturned(r, t.value))
  /\ UNCHANGED hasInterpreters

\* fs.fileExists(pythonPath) settles.
PythonPathChecked(c) ==
  /\ calls[c].pc = "fileExists"
  /\ \E ans \in BoolAnswers :
       LET r == [calls[c] EXCEPT !.file = ans] IN
       IF ans = "reject" THEN Set(c, PathCaught(r))
       ELSE Set(c, PathSettled(r, "returned",
                               IF ans = "true" THEN r.pythonPath ELSE None))
  /\ UNCHANGED hasInterpreters

\* helper.getInterpreterInformation(interpreterPath) settles.
InterpreterInformation(c) ==
  /\ calls[c].pc = "getInfo"
  /\ \E ans \in InfoAnswers :
       LET r == [calls[c] EXCEPT !.info = Some(ans)] IN
       IF ans.tag = "reject" \/ ~IsSome(ans.details)
       THEN /\ Set(c, Resolved([r EXCEPT !.list = <<>>]))
            /\ UNCHANGED hasInterpreters
       ELSE /\ Set(c, Resolved([r EXCEPT !.list =
                 <<makeInterpreter(Get(ans.details), Get(r.pathRet), Get(r.cwd))>>]))
            /\ hasInterpreters' = TRUE

\* getActivationCommands(resource, shell) up to its await.
getActivationCommands(c) ==
  /\ calls[c].pc = "idle"
  /\ \E resource \in Resources, shell \in ShellTypes :
       Set(c, [calls[c] EXCEPT !.kind = "getActivationCommands",
                               !.resource = resource, !.shell = shell,
                               !.pc = "getActiveInterpreter"])
  /\ UNCHANGED hasInterpreters

\* interpreterService.getActiveInterpreter(resource) settles.
ActiveInterpreter(c) ==
  /\ calls[c].pc = "getActiveInterpreter"
  /\ \E ans \in InterpreterAnswers, execName \in PoetryPaths :
       LET r == [calls[c] EXCEPT !.interp = Some(ans)] IN
       IF ans.tag = "reject" THEN Set(c, Rejected(r))
       ELSE LET cmds == getActivationCommandsResult(ans.interpreter, execName) IN
            Set(c, Resolved([r EXCEPT !.commands = cmds,
                 !.execName = IF IsSome(cmds) THEN Some(execName) ELSE None]))
  /\ UNCHANGED hasInterpreters

\* getActivationCommandsForInterpreter(pythonPath, shell) up to its await.
getActivationCommandsForInterpreter(c) ==
  /\ calls[c].pc = "idle"
  /\ \E pythonPath \in PythonPaths, shell \in ShellTypes :
       Set(c, [calls[c] EXCEPT !.kind = "getActivationCommandsForInterpreter",
                               !.pythonPathArg = pythonPath, !.shell = shell,
                               !.pc = "getInterpreterDetails"])
  /\ UNCHANGED hasInterpreters

\* interpreterService.getInterpreterDetails(pythonPath) settles.
InterpreterDetails(c) ==
  /\ calls[c].pc = "getInterpreterDetails"
  /\ \E ans \in InterpreterAnswers, execName \in PoetryPaths :
       LET r == [calls[c] EXCEPT !.interp = Some(ans)] IN
       IF ans.tag = "reject" THEN Set(c, Rejected(r))
       ELSE LET cmds == getActivationCommandsForInterpreterResult(ans.interpreter, execName) IN
            Set(c, Resolved([r EXCEPT !.commands = cmds,
                 !.execName = IF IsSome(cmds) THEN Some(execName) ELSE None]))
  /\ UNCHANGED hasInterpreters

\* One call running alone, with every output of at most MaxLen characters.
Next ==
  \E c \in {1} :
    \/ getInterpretersImplementation(c)
    \/ isRelatedPoetryEnvironment(c)
    \/ LockChecked(c)
    \/ ProcessServiceCreated(c)
    \/ ExecSettled(c, Strings(MaxLen))
    \/ PythonPathChecked(c)
    \/ InterpreterInformation(c)
    \/ getActivationCommands(c)
    \/ ActiveInterpreter(c)
    \/ getActivationCommandsForInterpreter(c)
    \/ InterpreterDetails(c)

Spec == Init /\ [][Next]_vars

\* Outputs of the tool in the interleaved runs.
ShortOutputs == {<<>>, <<"\n">>, <<"/", "v">>}

\* Lookups of all calls interleaved at their awaits.
NextInterleaved ==
  \E c \in Calls :
    \/ getInterpretersImplementation(c)
    \/ LockChecked(c)
    \/ ProcessServiceCreated(c)
    \/ ExecSettled(c, ShortOutputs)
    \/ PythonPathChecked(c)
    \/ InterpreterInformation(c)

SpecInterleaved == Init /\ [][NextInterleaved]_vars


----------------------------------------------------------------------------
\* Properties.

IsLookup(r) == r.kind = "getInterpreters"
IsRelatedCall(r) == r.kind = "isRelated"
UsesPoetry(r) == IsLookup(r) \/ IsRelatedCall(r)
IsActivation(r) ==
  r.kind \in {"getActivationCommands", "getActivationCommandsForInterpreter"}
IsDone(r) == r.pc = "done"

\* The tool wrote to stderr and nothing to stdout (white space aside).
StderrOnly(a) ==
  /\ a.tag = "result"
  /\ IsSome(a.stderr)
  /\ Trim(Get(a.stderr)) # <<>>
  /\ Trim(a.stdout) = <<>>

\* The invocation of the tool failed: the process service could not be
\* created, exec rejected, or the tool reported on stderr only.
ToolFailed(r) ==
  \/ r.create = "reject"
  \/ /\ IsSome(r.exec)
     /\ Get(r.exec).tag = "reject" \/ StderrOnly(Get(r.exec))

\* The invocation yielded a result without failing.
ToolYielded(r) ==
  /\ IsSome(r.exec)
  /\ Get(r.exec).tag = "result"
  /\ ~StderrOnly(Get(r.exec))

\* <trimmed stdout>/bin/python as one path.join of the three segments.
ExpectedPath(out) ==
  LET t == Trim(out) IN
  IF t = <<>> THEN <<"bin", "/", "python">>
  ELSE Normalize(t \o <<"/", "bin", "/", "python">>)

\* The three conditions of a successful detection.
Detected(r) == r.lock = "true" /\ ToolYielded(r) /\ r.file = "true"

PathValueAsClaimed(r) ==
  IF Detected(r) THEN r.pathRet = Some(ExpectedPath(Get(r.exec).stdout))
  ELSE r.pathRet = None

\* C1, as stated: once getInterpreterPathFromPoetry has finished it has
\* returned (never thrown), the path <trimmed stdout>/bin/python when
\* poetry.lock exists, the tool yielded a result and that file exists, and
\* undefined in every other case.
C1_AsStated ==
  \A c \in Calls :
    LET r == calls[c] IN
    UsesPoetry(r) /\ r.pathOutcome # "pending" =>
      r.pathOutcome = "returned" /\ PathValueAsClaimed(r)

\* C1, amended: getInterpreterPathFromPoetry returns the path
\* <trimmed stdout>/bin/python exactly when poetry.lock exists, the tool
\* yielded a result and that file exists, and undefined in every other case
\* but one: when the check for poetry.lock itself rejects, so does the call.
C1_PathIffDetected ==
  \A c \in Calls :
    LET r == calls[c] IN
    UsesPoetry(r) /\ r.pathOutcome # "pending" =>
      /\ r.pathOutcome = "rejected" <=> r.lock = "reject"
      /\ r.pathOutcome = "returned" => PathValueAsClaimed(r)
      /\ Truthy(r.pathRet) <=> Detected(r)

C1_Witness ==
  \E c \in Calls :
    /\ UsesPoetry(calls[c])
    /\ Detected(calls[c])
    /\ Get(calls[c].exec).stdout = <<"/", "\n">>
    /\ calls[c].pathRet = Some(<<"/", "bin", "/", "python">>)

\* C2: whenever the invocation of the tool fails, the failure is logged, a
\* warning is shown, and getInterpreterPathFromPoetry returns undefined
\* instead of throwing.
C2_ToolFailureWarnsAndReturnsUndefined ==
  \A c \in Calls :
    LET r == calls[c] IN
    UsesPoetry(r) /\ ToolFailed(r) =>
      /\ r.errorsLogged >= 1
      /\ r.shown >= 1
      /\ r.pathOutcome = "returned"
      /\ r.pathRet = None

C2_Witness ==
  \E c \in Calls :
    /\ IsLookup(calls[c])
    /\ IsSome(calls[c].exec)
    /\ StderrOnly(Get(calls[c].exec))
    /\ calls[c].shown = 1
    /\ calls[c].pathOutcome = "returned"

\* C3: the process service is created and the tool run only after the
\* check for poetry.lock has answered true; when it answers false nothing
\* is created, run or shown, and the lookup returns undefined.
C3_NoPoetryBeforeLockFile ==
  \A c \in Calls :
    LET r == calls[c] IN
    UsesPoetry(r) =>
      /\ r.invokes > 0 \/ r.creates > 0 \/ r.execs > 0 \/ r.create # "none"
           \/ IsSome(r.exec) => r.lock = "true"
      /\ r.lock = "false" =>
           /\ r.creates = 0 /\ r.execs = 0 /\ r.shown = 0
           /\ r.pathOutcome = "returned" /\ r.pathRet = None

C3_Witness ==
  \E c \in Calls :
    /\ IsLookup(calls[c])
    /\ calls[c].lock = "false"
    /\ IsDone(calls[c])
    /\ calls[c].creates = 0

\* C4: both activation methods return the one command
\* '<executable as command argument> shell' exactly when the interpreter
\* they resolved exists and is of type Poetry, and undefined otherwise,
\* whatever the shell.
C4_ActivationCommandIffPoetry ==
  \A c \in Calls :
    LET r == calls[c] IN
    IsActivation(r) /\ IsDone(r) /\ r.outcome = "resolved" =>
      LET interpreter == Get(r.interp).interpreter
          poetry == IsSome(interpreter) /\ Get(interpreter).type = "Poetry"
      IN /\ IsSome(r.commands) <=> poetry
         /\ poetry =>
              /\ Len(Get(r.commands)) = 1
              /\ \E execName \in PoetryPaths :
                   /\ r.execName = Some(execName)
                   /\ Get(r.commands)[1] =
                        fileToCommandArgument(execName) \o <<" ", "shell">>

C4_Witness ==
  \E c \in Calls :
    /\ calls[c].kind = "getActivationCommandsForInterpreter"
    /\ calls[c].shell = "powershell"
    /\ IsDone(calls[c])
    /\ IsSome(calls[c].commands)

\* C5: getInterpretersImplementation never rejects and resolves to at most
\* one interpreter: none without a working directory, without a path,
\* without interpreter information or when a step rejects; otherwise one of
\* type Poetry with the detected path and the working directory.
C5_AtMostOnePoetryInterpreter ==
  \A c \in Calls :
    LET r == calls[c] IN
    IsLookup(r) =>
      /\ r.outcome # "rejected"
      /\ IsDone(r) => r.outcome = "resolved"
      /\ Len(r.list) <= 1
      /\ IsDone(r) /\ ( \/ ~IsSome(r.cwd)
                        \/ ~Truthy(r.pathRet)
                        \/ r.pathOutcome = "rejected"
                        \/ ~IsSome(r.info)
                        \/ Get(r.info).tag = "reject"
                        \/ ~IsSome(Get(r.info).details) ) => r.list = <<>>
      /\ Len(r.list) = 1 =>
           /\ r.list[1].type = "Poetry"
           /\ Truthy(r.pathRet) /\ r.list[1].path = Get(r.pathRet)
           /\ IsSome(r.cwd) /\ r.list[1].poetryWorkspaceFolder = r.cwd
           /\ r.cwd = getPoetryWorkingDirectory(r.wsFolder, r.rootPath)

C5_Witness ==
  \E c \in Calls :
    /\ IsLookup(calls[c])
    /\ Len(calls[c].list) = 1
    /\ Get(Get(calls[c].info).details).type = "Unknown"
    /\ calls[c].list[1].path = <<"/", "v", "/", "bin", "/", "python">>

\* What a lookup returns, from the answers it received itself.
ExpectedList(r) ==
  IF \/ ~IsSome(r.cwd)
     \/ ~Detected(r)
     \/ ~IsSome(r.info)
     \/ Get(r.info).tag = "reject"
     \/ ~IsSome(Get(r.info).details)
  THEN <<>>
  ELSE <<[version |-> Get(Get(r.info).details).version,
          path |-> ExpectedPath(Get(r.exec).stdout),
          type |-> "Poetry",
          poetryWorkspaceFolder |-> r.cwd]>>

\* C6: a finished lookup whose directory holds poetry.lock has invoked the
\* tool exactly once, and what it returns is determined by the answers it
\* received itself, however the lookups are interleaved.
C6_OneInvocationOwnAnswers ==
  \A c \in Calls :
    LET r == calls[c] IN
    IsLookup(r) /\ IsDone(r) =>
      /\ r.invokes = IF r.lock = "true" THEN 1 ELSE 0
      /\ r.creates = r.invokes
      /\ r.execs = IF r.create = "ok" THEN 1 ELSE 0
      /\ r.list = ExpectedList(r)

C6_Witness ==
  /\ IsDone(calls[1]) /\ IsDone(calls[2])
  /\ calls[1].cwd = calls[2].cwd
  /\ calls[1].lock = "true" /\ calls[2].lock = "true"
  /\ Len(calls[1].list) = 1
  /\ calls[2].list = <<>>
  /\ calls[1].invokes = 1 /\ calls[2].invokes = 1

\* path.basename of the directories of Dirs.
ExpectedBasename(dir) ==
  CASE dir = <<"/", "p">> -> <<"p">>
    [] dir = <<"/", "p", "/">> -> <<"p">>
    [] dir = <<"/", "w", "/", "q">> -> <<"q">>
    [] dir = <<"/">> -> <<>>

\* pythonPath contains '<separator><basename of dir>-'.
NamedAfter(dir, pythonPath) ==
  \E i \in 1..Len(pythonPath), j \in 1..Len(pythonPath) :
    /\ i < j
    /\ pythonPath[i] = "/"
    /\ pythonPath[j] = "-"
    /\ SubSeq(pythonPath, i + 1, j - 1) = ExpectedBasename(dir)

\* C7: isRelatedPoetryEnvironment answers false without a look at the file
\* system or the tool when pythonPath does not contain
\* '<separator><basename of dir>-'; when it does, it answers true exactly
\* when getInterpreterPathFromPoetry(dir) yields a path.
C7_RelatedOnlyByNameAndPath ==
  \A c \in Calls :
    LET r == calls[c] IN
    IsRelatedCall(r) =>
      /\ ~NamedAfter(r.dir, r.pythonPathArg) =>
           /\ IsDone(r) /\ r.outcome = "resolved" /\ ~r.related
           /\ r.lockPath = None /\ r.lock = "none" /\ r.fileChecks = 0
           /\ r.creates = 0 /\ r.execs = 0
      /\ NamedAfter(r.dir, r.pythonPathArg) =>
           /\ r.cwd = Some(r.dir) /\ r.ignoreErrors
           /\ IsDone(r) => (r.outcome = "resolved" /\ r.related <=> Truthy(r.pathRet))

C7_Witness ==
  \E c \in Calls :
    /\ IsRelatedCall(calls[c])
    /\ calls[c].dir = <<"/", "p", "/">>
    /\ IsDone(calls[c])
    /\ calls[c].related

\* C8: the working directory is the path of the workspace folder of the
\* resource when there is one, else the workspace root; only when that is
\* undefined too does the lookup return [] without a check for poetry.lock.
C8_WorkingDirectory ==
  \A c \in Calls :
    LET r == calls[c]
        inFolder == IsSome(r.resource) /\ IsSome(r.wsFolder)
    IN IsLookup(r) =>
         /\ inFolder => r.cwd = Some(WsPath)
         /\ ~inFolder => r.cwd = r.rootPath
         /\ ~inFolder /\ r.rootPath = None =>
              /\ IsDone(r) /\ r.list = <<>>
              /\ r.lockPath = None /\ r.lock = "none" /\ r.invokes = 0
         /\ r.lockPath = None => ~inFolder /\ r.rootPath = None

C8_Witness ==
  \E c \in Calls :
    /\ IsLookup(calls[c])
    /\ IsSome(calls[c].resource)
    /\ calls[c].wsFolder = None
    /\ calls[c].cwd = Some(RootPath)
    /\ calls[c].lock = "true"

\* C9, as stated: with ignoreErrors = true a failure of the invocation of
\* the tool shows no warning; it is only logged and undefined is returned.
C9_AsStated ==
  \A c \in Calls :
    LET r == calls[c] IN
    UsesPoetry(r) /\ r.ignoreErrors /\ ToolFailed(r) =>
      r.shown = 0 /\ r.pathOutcome = "returned" /\ r.pathRet = None

\* C10: one call of getInterpreterPathFromPoetry shows the warning at most
\* once, whichever failures occur.
C10_AtMostOneWarning ==
  \A c \in Calls : calls[c].shown <= 1

C10_Witness ==
  \E c \in Calls :
    /\ IsLookup(calls[c])
    /\ calls[c].file = "reject"
    /\ calls[c].shown = 1
    /\ calls[c].traced = 1

====
